---- MODULE Spec2Model ----
(***************************************************************************)
(* Fuzzy-GA study schedule generator (abuhanif27/study_planner_ai).        *)
(*                                                                         *)
(* The module models FuzzyStressCalculator and StudyScheduleGA of          *)
(* src/fuzzy_ga_study_planner_gui.py.  Python floats are modelled as exact *)
(* rationals <<n, d>> (d > 0, lowest terms); every call of the random      *)
(* module is a nondeterministic choice over the values it can return.      *)
(* SpecCallers adds the callers of evolve: POST /api/generate of           *)
(* src/app.py and the handlers of StudyPlannerGUI; SpecResults adds the    *)
(* sliders, refresh and export; SpecWorkerFair schedules the GUI's worker  *)
(* thread fairly.  SpecCallback runs evolve with a progress callback and   *)
(* SpecAlias applies the operators to list objects on a heap.              *)
(***************************************************************************)
EXTENDS Integers, Sequences, FiniteSets, TLC

VARIABLES
    courses,              \* self.courses: sequence of [id, difficulty]
    days,                 \* self.days
    slots_per_day,        \* self.slots_per_day
    max_hours_per_day,    \* self.max_hours_per_day (rational)
    pop_size,             \* evolve(pop_size=...)
    generations,          \* evolve(generations=...)
    pc,                   \* position of the evolve call
    gen,                  \* loop variable of evolve
    population,           \* evolve: population
    fitness_scores,       \* evolve: fitness_scores of the current generation
    selected,             \* evolve: selected
    best_fitness_history, \* evolve: best_fitness_history
    best_schedule,        \* evolve: best_schedule (returned)
    progress_callback,    \* evolve(progress_callback=...): TRUE if one is supplied
    progress_calls,       \* the argument tuples of the calls of the callback so far
    fn,                   \* name of the operator applied last ("none" before)
    arg_chromosome,         \* first argument of the operator call
    arg_parent2,          \* second argument (crossover) of the operator call
    arg_rate,             \* crossover_rate / mutation_rate of the call
    ret,                  \* what the call returned
    heap,                 \* the list objects of a call: heap[r] is the content of reference r
    daily_hours,          \* calculate_stress(daily_hours, ...)
    avg_difficulty,       \* calculate_stress(..., avg_difficulty)
    stress_value,         \* what calculate_stress returned
    request,              \* app.py: the JSON body of a POST /api/generate
    sliders,              \* StudyPlannerGUI: the values of the parameter sliders
    gui_courses,          \* StudyPlannerGUI.courses (the list the GA is handed)
    is_generating,        \* StudyPlannerGUI.is_generating
    workers,              \* number of threads that are inside StudyPlannerGUI._run_ga
    shown                 \* what the last decoding of self.best_schedule came to

vars == <<courses, days, slots_per_day, max_hours_per_day, pop_size,
          generations, pc, gen, population, fitness_scores, selected,
          best_fitness_history, best_schedule, progress_callback,
          progress_calls, fn, arg_chromosome,
          arg_parent2, arg_rate, ret, heap, daily_hours, avg_difficulty, stress_value,
          request, sliders, gui_courses, is_generating, workers, shown>>

gaVars == <<courses, days, slots_per_day, max_hours_per_day>>
callbackVars == <<progress_callback, progress_calls>>
evolveVars == <<pop_size, generations, pc, gen, population, fitness_scores,
                selected, best_fitness_history, best_schedule, callbackVars>>
callVars == <<fn, arg_chromosome, arg_parent2, arg_rate, ret, heap>>
stressVars == <<daily_hours, avg_difficulty, stress_value>>
callerVars == <<request, sliders, gui_courses, is_generating, workers, shown>>

(***************************************************************************)
(* Exact rational arithmetic standing for Python's float arithmetic.       *)
(***************************************************************************)
Abs(x) == IF x < 0 THEN -x ELSE x

RECURSIVE Gcd(_, _)
Gcd(a, b) == IF b = 0 THEN a ELSE Gcd(b, a % b)

R(n, d) ==
    LET s == IF d < 0 THEN -1 ELSE 1
        g == Gcd(Abs(n), Abs(d))
    IN  <<(s * n) \div g, (s * d) \div g>>

Q(k) == <<k, 1>>
RAdd(x, y) ==
    LET l == (x[2] * y[2]) \div Gcd(x[2], y[2])
    IN  R(x[1] * (l \div x[2]) + y[1] * (l \div y[2]), l)
RNeg(x) == <<-x[1], x[2]>>
RSub(x, y) == RAdd(x, RNeg(y))
RMul(x, y) ==
    LET a == R(x[1], y[2])
        b == R(y[1], x[2])
    IN  R(a[1] * b[1], a[2] * b[2])
RDiv(x, y) == RMul(x, R(y[2], y[1]))
RLt(x, y) == x[1] * y[2] < y[1] * x[2]
RLe(x, y) == x[1] * y[2] <= y[1] * x[2]
RMin(x, y) == IF RLe(x, y) THEN x ELSE y
RMax(x, y) == IF RLe(x, y) THEN y ELSE x
\* int(x) of a non-negative float: truncation
RFloor(x) == x[1] \div x[2]

(***************************************************************************)
(* FuzzyStressCalculator                                                   *)
(***************************************************************************)
\* A plausible slip: negative hours folded to their magnitude, not clamped.
fuzzify_hours_abs(hours_in) ==
    LET hours == RMin(<<Abs(hours_in[1]), hours_in[2]>>, Q(8))
        low == IF RLe(hours, Q(0)) THEN Q(1)
               ELSE IF RLt(hours, Q(2)) THEN RSub(Q(1), RDiv(hours, Q(2)))
               ELSE Q(0)
        medium == IF RLe(hours, Q(1)) THEN Q(0)
                  ELSE IF RLt(hours, Q(3)) THEN RDiv(RSub(hours, Q(1)), Q(2))
                  ELSE IF RLe(hours, Q(3)) THEN Q(1)
                  ELSE IF RLt(hours, Q(5)) THEN RDiv(RSub(Q(5), hours), Q(2))
                  ELSE Q(0)
        high == IF RLe(hours, Q(4)) THEN Q(0)
                ELSE IF RLt(hours, Q(6)) THEN RDiv(RSub(hours, Q(4)), Q(2))
                ELSE Q(1)
    IN  [low |-> low, medium |-> medium, high |-> high]

fuzzify_hours(hours_in) ==
    LET hours == RMax(Q(0), RMin(hours_in, Q(8)))
        low == IF RLe(hours, Q(0)) THEN Q(1)
               ELSE IF RLt(hours, Q(2)) THEN RSub(Q(1), RDiv(hours, Q(2)))
               ELSE Q(0)
        medium == IF RLe(hours, Q(1)) THEN Q(0)
                  ELSE IF RLt(hours, Q(3)) THEN RDiv(RSub(hours, Q(1)), Q(2))
                  ELSE IF RLe(hours, Q(3)) THEN Q(1)
                  ELSE IF RLt(hours, Q(5)) THEN RDiv(RSub(Q(5), hours), Q(2))
                  ELSE Q(0)
        high == IF RLe(hours, Q(4)) THEN Q(0)
                ELSE IF RLt(hours, Q(6)) THEN RDiv(RSub(hours, Q(4)), Q(2))
                ELSE Q(1)
    IN  [low |-> low, medium |-> medium, high |-> high]

fuzzify_difficulty(difficulty_in) ==
    LET difficulty == RMax(Q(1), RMin(difficulty_in, Q(5)))
        easy == IF RLe(difficulty, Q(1)) THEN Q(1)
                ELSE IF RLt(difficulty, R(5, 2))
                     THEN RDiv(RSub(R(5, 2), difficulty), R(3, 2))
                ELSE Q(0)
        medium == IF RLe(difficulty, Q(2)) THEN Q(0)
                  ELSE IF RLt(difficulty, Q(3)) THEN RSub(difficulty, Q(2))
                  ELSE IF RLe(difficulty, Q(3)) THEN Q(1)
                  ELSE IF RLt(difficulty, Q(4)) THEN RSub(Q(4), difficulty)
                  ELSE Q(0)
        hard == IF RLe(difficulty, R(7, 2)) THEN Q(0)
                ELSE IF RLt(difficulty, Q(5))
                     THEN RDiv(RSub(difficulty, R(7, 2)), R(3, 2))
                ELSE Q(1)
    IN  [easy |-> easy, medium |-> medium, hard |-> hard]

\* A plausible slip: the time-pressure rule (rule 6) is left out.
apply_fuzzy_rules_without_rule6(hours_mf, difficulty_mf) ==
    LET rule1 == RMul(RMin(hours_mf.low, difficulty_mf.easy), R(8, 10))
        rule2 == RMul(RMin(hours_mf.medium, difficulty_mf.medium), R(7, 10))
        rule3 == RMul(RMin(hours_mf.high, difficulty_mf.hard), R(9, 10))
        rule4 == RMul(RMin(hours_mf.high, difficulty_mf.easy), R(6, 10))
        rule5 == RMul(RMin(hours_mf.medium, difficulty_mf.hard), R(9, 10))
        rule7 == RMul(RMin(hours_mf.low, difficulty_mf.medium), R(7, 10))
        low == RAdd(rule1, rule4)
        medium == RAdd(rule2, rule7)
        high == RAdd(rule3, rule5)
        total == RAdd(RAdd(low, medium), high)
    IN  IF RLt(Q(0), total)
        THEN [low |-> RDiv(low, total), medium |-> RDiv(medium, total),
              high |-> RDiv(high, total)]
        ELSE [low |-> low, medium |-> medium, high |-> high]

apply_fuzzy_rules(hours_mf, difficulty_mf) ==
    LET rule1 == RMul(RMin(hours_mf.low, difficulty_mf.easy), R(8, 10))
        rule2 == RMul(RMin(hours_mf.medium, difficulty_mf.medium), R(7, 10))
        rule3 == RMul(RMin(hours_mf.high, difficulty_mf.hard), R(9, 10))
        rule4 == RMul(RMin(hours_mf.high, difficulty_mf.easy), R(6, 10))
        rule5 == RMul(RMin(hours_mf.medium, difficulty_mf.hard), R(9, 10))
        rule6 == RMul(RMin(hours_mf.low, difficulty_mf.hard), R(95, 100))
        rule7 == RMul(RMin(hours_mf.low, difficulty_mf.medium), R(7, 10))
        low == RAdd(rule1, rule4)
        medium == RAdd(rule2, rule7)
        high == RAdd(RAdd(rule3, rule5), rule6)
        total == RAdd(RAdd(low, medium), high)
    IN  IF RLt(Q(0), total)
        THEN [low |-> RDiv(low, total), medium |-> RDiv(medium, total),
              high |-> RDiv(high, total)]
        ELSE [low |-> low, medium |-> medium, high |-> high]

\* A plausible slip: the centroid reported in percent and left unclamped.
defuzzify_percent(stress_mf) ==
    RAdd(RAdd(RMul(stress_mf.low, Q(20)), RMul(stress_mf.medium, Q(50))),
         RMul(stress_mf.high, Q(80)))

defuzzify(stress_mf) ==
    LET v == RAdd(RAdd(RMul(stress_mf.low, R(2, 10)),
                       RMul(stress_mf.medium, R(5, 10))),
                  RMul(stress_mf.high, R(8, 10)))
    IN  RMin(Q(1), RMax(Q(0), v))

calculate_stress(h, d) ==
    defuzzify(apply_fuzzy_rules(fuzzify_hours(h), fuzzify_difficulty(d)))

(***************************************************************************)
(* StudyScheduleGA: helpers shared by the operators                        *)
(***************************************************************************)
hours_per_slot == R(3, 2)

chromosome_length == days * slots_per_day

\* A plausible slip: the id after the last course can be drawn as well.
gene_choices_one_more == {courses[i].id : i \in DOMAIN courses} \cup {0, Len(courses) + 1}

\* [c['id'] for c in self.courses] + [0]
gene_choices == {courses[i].id : i \in DOMAIN courses} \cup {0}

\* chromosome[day_start:day_end] for a 0-based day
day_slice(c, day) ==
    SubSeq(c, day * slots_per_day + 1, day * slots_per_day + slots_per_day)

\* sum(1 for s in day_slots if s != 0)
count_non_zero(day_slots) == Cardinality({i \in DOMAIN day_slots : day_slots[i] # 0})

\* int(self.max_hours_per_day / self.hours_per_slot)
\* A plausible slip: the capacity is rounded up instead of down.
capacity_rounded_up ==
    LET q == RDiv(max_hours_per_day, hours_per_slot)
    IN  IF Q(RFloor(q)) = q THEN RFloor(q) ELSE RFloor(q) + 1

capacity == RFloor(RDiv(max_hours_per_day, hours_per_slot))

\* the values `random.random() < p` can take
random_below(p) == {b \in BOOLEAN : (b => RLt(Q(0), p)) /\ (~b => RLt(p, Q(1)))}

is_valid_chromosome(c) ==
    \A day \in 0 .. days - 1 :
        ~RLt(max_hours_per_day,
             RMul(Q(count_non_zero(day_slice(c, day))), hours_per_slot))

(***************************************************************************)
(* fix_chromosome: the set of chromosomes the repair can return            *)
(***************************************************************************)
\* A plausible slip: one excess slot too few is cleared.
fix_day_keeps_one_excess(fixed, day) ==
    LET day_start == day * slots_per_day
        day_slots == day_slice(fixed, day)
        non_zero_count == count_non_zero(day_slots)
        max_slots == capacity
        non_zero_indices == {i \in 0 .. Len(day_slots) - 1 : day_slots[i + 1] # 0}
    IN  IF non_zero_count > max_slots + 1
        THEN {[k \in DOMAIN fixed |->
                  IF k - 1 - day_start \in indices_to_clear THEN 0 ELSE fixed[k]] :
              indices_to_clear \in
                  {S \in SUBSET non_zero_indices :
                      Cardinality(S) = non_zero_count - max_slots - 1}}
        ELSE {fixed}

\* A plausible slip: an overloaded day loses one slot, whatever its excess.
fix_day_removes_one(fixed, day) ==
    LET day_start == day * slots_per_day
        day_slots == day_slice(fixed, day)
        non_zero_count == count_non_zero(day_slots)
        max_slots == capacity
        non_zero_indices == {i \in 0 .. Len(day_slots) - 1 : day_slots[i + 1] # 0}
    IN  IF non_zero_count > max_slots
        THEN {[k \in DOMAIN fixed |->
                  IF k - 1 - day_start \in indices_to_clear THEN 0 ELSE fixed[k]] :
              indices_to_clear \in
                  {S \in SUBSET non_zero_indices : Cardinality(S) = 1}}
        ELSE {fixed}

\* the body of the loop over days, for one day
fix_day(fixed, day) ==
    LET day_start == day * slots_per_day
        day_slots == day_slice(fixed, day)
        non_zero_count == count_non_zero(day_slots)
        max_slots == capacity
        slots_to_remove == non_zero_count - max_slots
        non_zero_indices == {i \in 0 .. Len(day_slots) - 1 : day_slots[i + 1] # 0}
    IN  IF non_zero_count > max_slots
        THEN {[k \in DOMAIN fixed |->
                  IF k - 1 - day_start \in indices_to_clear THEN 0 ELSE fixed[k]] :
              indices_to_clear \in
                  {S \in SUBSET non_zero_indices : Cardinality(S) = slots_to_remove}}
        ELSE {fixed}

RECURSIVE fix_from(_, _)
fix_from(fixed, day) ==
    IF day >= days THEN {fixed}
    ELSE UNION {fix_from(f, day + 1) : f \in fix_day(fixed, day)}

fix_chromosome(c) == fix_from(c, 0)

(***************************************************************************)
(* crossover, mutate, create_random_chromosome                             *)
(* An operator that can raise returns records [exc, val].                  *)
(***************************************************************************)
Returned(v) == [exc |-> "none", val |-> v]
Raised(e) == [exc |-> e, val |-> <<>>]

\* parent1[:point] + parent2[point:]
splice(parent1, parent2, point) ==
    [k \in DOMAIN parent1 |-> IF k <= point THEN parent1[k] ELSE parent2[k]]

\* "if not self.is_valid_chromosome(child): child = self.fix_chromosome(child)"
repair_if_invalid(child) ==
    IF is_valid_chromosome(child) THEN {child} ELSE fix_chromosome(child)

\* A plausible slip: the children of a cut are returned unrepaired.
crossover_unrepaired(parent1, parent2, crossover_rate) ==
    UNION {
        IF cut
        THEN IF Len(parent1) - 1 < 1
             THEN {Raised("ValueError")}
             ELSE {Returned(<<splice(parent1, parent2, point),
                              splice(parent2, parent1, point)>>) :
                    point \in 1 .. Len(parent1) - 1}
        ELSE {Returned(<<parent1, parent2>>)} :
        cut \in random_below(crossover_rate)}

\* the set of outcomes of crossover(parent1, parent2, crossover_rate)
crossover(parent1, parent2, crossover_rate) ==
    UNION {
        IF cut
        THEN IF Len(parent1) - 1 < 1
             THEN {Raised("ValueError")}       \* random.randint(1, 0)
             ELSE UNION {
                    {Returned(<<child1, child2>>) :
                        child1 \in repair_if_invalid(splice(parent1, parent2, point)),
                        child2 \in repair_if_invalid(splice(parent2, parent1, point))} :
                    point \in 1 .. Len(parent1) - 1}
        ELSE {Returned(<<parent1, parent2>>)} :
        cut \in random_below(crossover_rate)}

\* A plausible slip: a rest gene receives an activity whatever the day's count.
mutate_gene_unguarded(mutated, i, mutation_rate) ==
    UNION {
        IF ~hit THEN {mutated}
        ELSE {[mutated EXCEPT ![i + 1] = g] : g \in gene_choices} :
        hit \in random_below(mutation_rate)}

\* one step of mutate's loop at 0-based position i: the values of `mutated`
mutate_gene(mutated, i, mutation_rate) ==
    LET day == i \div slots_per_day
        non_zero_count == count_non_zero(day_slice(mutated, day))
        max_slots == capacity
    IN  UNION {
            IF ~hit THEN {mutated}
            ELSE IF mutated[i + 1] # 0
                 THEN {[mutated EXCEPT ![i + 1] = g] : g \in gene_choices}
                 ELSE IF non_zero_count < max_slots
                      THEN {[mutated EXCEPT ![i + 1] = g] : g \in gene_choices}
                      ELSE {mutated} :
            hit \in random_below(mutation_rate)}

\* A plausible slip: the final validation of mutate is left out.
RECURSIVE mutate_unvalidated_from(_, _, _)
mutate_unvalidated_from(mutated, i, mutation_rate) ==
    IF i >= Len(mutated) THEN {mutated}
    ELSE UNION {mutate_unvalidated_from(m, i + 1, mutation_rate) :
                m \in mutate_gene(mutated, i, mutation_rate)}

mutate_unvalidated(c, mutation_rate) == mutate_unvalidated_from(c, 0, mutation_rate)

RECURSIVE mutate_from(_, _, _)
mutate_from(mutated, i, mutation_rate) ==
    IF i >= Len(mutated) THEN repair_if_invalid(mutated)
    ELSE UNION {mutate_from(m, i + 1, mutation_rate) :
                m \in mutate_gene(mutated, i, mutation_rate)}

\* the set of chromosomes mutate(chromosome, mutation_rate) can return
mutate(c, mutation_rate) == mutate_from(c, 0, mutation_rate)

\* A plausible slip: the capacity test admits one slot too many.
\* A plausible slip: the per-day count is not consulted.
create_gene_untracked(daily_slots, day) == gene_choices

create_gene_off_by_one(daily_slots, day) ==
    IF daily_slots[day] <= capacity THEN gene_choices ELSE {0}

\* the course ids one slot of create_random_chromosome can receive
create_gene(daily_slots, day) ==
    LET available_slots == capacity
    IN  IF daily_slots[day] < available_slots THEN gene_choices ELSE {0}

RECURSIVE create_from(_, _)
create_from(chrom, daily_slots) ==
    IF Len(chrom) >= chromosome_length THEN {chrom}
    ELSE LET day == Len(chrom) \div slots_per_day
         IN  UNION {create_from(Append(chrom, course_id),
                                IF course_id # 0
                                THEN [daily_slots EXCEPT ![day] = @ + 1]
                                ELSE daily_slots) :
                    course_id \in create_gene(daily_slots, day)}

\* the set of chromosomes create_random_chromosome() can return
create_random_chromosome == create_from(<<>>, [day \in 0 .. days - 1 |-> 0])

(***************************************************************************)
(* evaluate_fitness                                                        *)
(***************************************************************************)
\* next(c['difficulty'] for c in self.courses if c['id'] == s)
difficulty_of(s) ==
    LET first == CHOOSE i \in DOMAIN courses :
                    /\ courses[i].id = s
                    /\ \A j \in 1 .. i - 1 : courses[j].id # s
    IN  courses[first].difficulty

RECURSIVE sum_difficulty(_)
sum_difficulty(slots) ==
    IF slots = <<>> THEN 0
    ELSE (IF Head(slots) # 0 THEN difficulty_of(Head(slots)) ELSE 0)
         + sum_difficulty(Tail(slots))

\* avg_difficulty of a day: np.mean over the non-zero slots, 0 if none
day_avg_difficulty(day_slots) ==
    IF count_non_zero(day_slots) = 0 THEN Q(0)
    ELSE R(sum_difficulty(day_slots), count_non_zero(day_slots))

day_hours(day_slots) == RMul(Q(count_non_zero(day_slots)), hours_per_slot)

RECURSIVE overload_penalty(_, _)
overload_penalty(c, day) ==
    IF day >= days THEN Q(0)
    ELSE LET h == day_hours(day_slice(c, day))
             over == RSub(h, max_hours_per_day)
         IN  RAdd(IF RLt(max_hours_per_day, h) THEN RMul(over, over) ELSE Q(0),
                  overload_penalty(c, day + 1))

RECURSIVE stress_penalty(_, _)
stress_penalty(c, day) ==
    IF day >= days THEN Q(0)
    ELSE RAdd(calculate_stress(day_hours(day_slice(c, day)),
                               day_avg_difficulty(day_slice(c, day))),
              stress_penalty(c, day + 1))

\* A plausible slip: every occupied slot counts towards the coverage.
coverage_counts_slots(c) == count_non_zero(c)

coverage_score(c) == Cardinality({c[k] : k \in DOMAIN c} \ {0})

\* alpha * coverage_score - beta * overload_penalty - gamma * stress_penalty
raw_fitness(c) ==
    RSub(RSub(RMul(Q(5), Q(coverage_score(c))),
              RMul(Q(2), overload_penalty(c, 0))),
         RMul(Q(3), stress_penalty(c, 0)))

\* A plausible slip: the floor at 0 is left out.
evaluate_fitness_unfloored(c) == raw_fitness(c)

evaluate_fitness(c) == RMax(Q(0), raw_fitness(c))

(***************************************************************************)
(* selection and the body of evolve's generation loop                      *)
(***************************************************************************)
\* max(idx, key=lambda i: fitness_scores[i]): the first maximal element
tournament_winner(idx, scores) ==
    LET best == CHOOSE k \in DOMAIN idx :
                    /\ \A j \in DOMAIN idx : RLe(scores[idx[j]], scores[idx[k]])
                    /\ \A j \in 1 .. k - 1 : RLt(scores[idx[j]], scores[idx[k]])
    IN  idx[best]

\* A plausible slip: the tournament draws its indices with replacement.
random_sample_with_replacement(n, k) == [1 .. k -> 1 .. n]

\* random.sample(range(n), k): every ordered choice of k distinct indices
random_sample(n, k) ==
    {idx \in [1 .. k -> 1 .. n] : \A a, b \in 1 .. k : a # b => idx[a] # idx[b]}

\* the set of outcomes of selection(population, fitness_scores, tournament_size)
selection(pop, scores, tournament_size) ==
    IF Len(pop) = 0 THEN {Returned(<<>>)}
    ELSE IF tournament_size > Len(pop)
         THEN {Raised("ValueError")}          \* random.sample: sample too large
         ELSE LET winners == {tournament_winner(idx, scores) :
                                idx \in random_sample(Len(pop), tournament_size)}
              IN  {Returned(s) : s \in [1 .. Len(pop) -> {pop[w] : w \in winners}]}

\* A plausible slip (elitism): the first parent of a pair is carried over as is.
reproduce_pair_keeps_parent(parent1, second) ==
    UNION {
        IF o.exc # "none" THEN {Raised(o.exc)}
        ELSE {Returned(<<parent1, m2>>) : m2 \in mutate(o.val[2], R(1, 10))} :
        o \in crossover(parent1, second, R(8, 10))}

\* one iteration of the loop over pairs: crossover, then mutate of each child;
\* the outcomes are the two individuals appended to new_population
reproduce_pair(parent1, second) ==
    UNION {
        IF o.exc # "none" THEN {Raised(o.exc)}
        ELSE {Returned(<<m1, m2>>) :
                m1 \in mutate(o.val[1], R(1, 10)),
                m2 \in mutate(o.val[2], R(1, 10))} :
        o \in crossover(parent1, second, R(8, 10))}

\* the loop "for i in range(0, len(selected), 2)" from 0-based position i on:
\* the outcomes are what the remaining iterations append to new_population
RECURSIVE reproduce_from(_, _)
reproduce_from(sel, i) ==
    IF i >= Len(sel) THEN {Returned(<<>>)}
    ELSE LET parent1 == sel[i + 1]
             second == IF i + 1 < Len(sel) THEN sel[i + 2] ELSE sel[1]
             this_pair == reproduce_pair(parent1, second)
             later_pairs == reproduce_from(sel, i + 2)
         IN  {IF a.exc # "none" THEN a
              ELSE IF b.exc # "none" THEN b
              ELSE Returned(a.val \o b.val) :
              a \in this_pair, b \in later_pairs}

\* [self.evaluate_fitness(ind) for ind in population]
RECURSIVE fitness_list(_)
fitness_list(pop) ==
    IF pop = <<>> THEN <<>>
    ELSE <<evaluate_fitness(Head(pop))>> \o fitness_list(Tail(pop))

\* A plausible slip: the fitness of the first individual is recorded.
first_fitness(scores) == scores[1]

\* max(fitness_scores)
max_fitness(scores) ==
    scores[CHOOSE k \in DOMAIN scores : \A j \in DOMAIN scores : RLe(scores[j], scores[k])]

\* A plausible slip: np.argmin in place of np.argmax.
argmin(scores) ==
    CHOOSE k \in DOMAIN scores :
        /\ \A j \in DOMAIN scores : RLe(scores[k], scores[j])
        /\ \A j \in 1 .. k - 1 : RLt(scores[k], scores[j])

\* np.argmax(final_fitness): the first index of the maximum (1-based here)
argmax(scores) ==
    CHOOSE k \in DOMAIN scores :
        /\ \A j \in DOMAIN scores : RLe(scores[j], scores[k])
        /\ \A j \in 1 .. k - 1 : RLt(scores[j], scores[k])

(***************************************************************************)
(* StudyScheduleGA.schedule_to_readable                                    *)
(***************************************************************************)
day_names ==
    <<"Monday", "Tuesday", "Wednesday", "Thursday", "Friday", "Saturday", "Sunday">>

slot_names == <<"Morning", "Afternoon", "Evening">>

\* A plausible slip: the fallback day label counts from 1.
day_name_from_one(day) ==
    IF day < Len(day_names) THEN day_names[day + 1] ELSE "Day " \o ToString(day + 1)

\* day_names[day] if day < len(day_names) else f"Day {day}"
day_name(day) ==
    IF day < Len(day_names) THEN day_names[day + 1] ELSE "Day " \o ToString(day)

\* slot_names[slot_idx] if slot_idx < len(slot_names) else f"Slot {slot_idx}"
slot_name(slot_idx) ==
    IF slot_idx < Len(slot_names) THEN slot_names[slot_idx + 1]
    ELSE "Slot " \o ToString(slot_idx)

\* d[k] = v on a dict: a new key is added, an existing key is overwritten
dict_set(d, k, v) == [x \in DOMAIN d \cup {k} |-> IF x = k THEN v ELSE d[x]]

empty_dict == [x \in {} |-> ""]

\* round() of a non-negative value to the nearest integer, ties to even
round_half_even(x) ==
    LET f == x[1] \div x[2]
        rem == x[1] - f * x[2]
    IN  IF 2 * rem < x[2] THEN f
        ELSE IF 2 * rem > x[2] THEN f + 1
        ELSE IF f % 2 = 0 THEN f ELSE f + 1

\* f"{x:.1f}" for x >= 0
format_1f(x) ==
    LET m == round_half_even(RMul(x, Q(10)))
    IN  ToString(m \div 10) \o "." \o ToString(m % 10)

\* f"{x:.2f}" for x >= 0
format_2f(x) ==
    LET m == round_half_even(RMul(x, Q(100)))
    IN  ToString(m \div 100) \o "." \o ToString((m % 100) \div 10) \o ToString(m % 10)

stress_label(stress_value_) ==
    IF RLt(stress_value_, R(33, 100)) THEN "Low"
    ELSE IF RLt(stress_value_, R(67, 100)) THEN "Medium"
    ELSE "High"

\* next(c for c in self.courses if c['id'] == course_id)['name']
name_of(course_id) ==
    LET i == CHOOSE j \in DOMAIN courses :
                /\ courses[j].id = course_id
                /\ \A k \in 1 .. j - 1 : courses[k].id # course_id
    IN  courses[i].name

\* the slot entries of one day, written in slot order
RECURSIVE readable_slots(_, _, _)
readable_slots(entries, day_slots, slot_idx) ==
    IF slot_idx >= Len(day_slots) THEN entries
    ELSE LET course_id == day_slots[slot_idx + 1]
         IN  readable_slots(
                 dict_set(entries, slot_name(slot_idx),
                          IF course_id # 0 THEN name_of(course_id) ELSE "Rest"),
                 day_slots, slot_idx + 1)

\* schedule[day_name] after the body of the loop over the days
readable_day(c, day) ==
    LET day_slots == day_slice(c, day)
        total_hours == day_hours(day_slots)
        avg_difficulty_ == day_avg_difficulty(day_slots)
        stress == calculate_stress(total_hours, avg_difficulty_)
        slots == readable_slots(empty_dict, day_slots, 0)
        with_hours == dict_set(slots, "Total Hours", format_1f(total_hours))
        with_difficulty ==
            dict_set(with_hours, "Avg Difficulty", format_1f(avg_difficulty_))
    IN  dict_set(with_difficulty, "Stress Level",
                 format_2f(stress) \o " (" \o stress_label(stress) \o ")")

RECURSIVE readable_from(_, _, _)
readable_from(schedule, c, day) ==
    IF day >= days THEN schedule
    ELSE readable_from(dict_set(schedule, day_name(day), readable_day(c, day)),
                       c, day + 1)

schedule_to_readable(c) == readable_from(empty_dict, c, 0)

(***************************************************************************)
(* Bounds and input sets                                                   *)
(***************************************************************************)
MaxCourses == 2     \* number of courses in self.courses
MaxGenes == 4       \* operator calls: courses x days x slots_per_day
MaxPop == 4         \* evolve: pop_size
MaxGen == 2         \* evolve: generations
MaxWork == 6        \* evolve: courses x days x slots_per_day x pop_size
GridDen == 4        \* stress inputs are multiples of 1 / GridDen
GridOver == 4       \* grid steps below and above the clamped ranges
MaxDays == 10       \* days of a decoded schedule
MaxSlots == 5       \* slots_per_day of a decoded schedule
MaxPattern == 3     \* period of the gene pattern of a decoded schedule
MaxCallbackWork == 4  \* days x slots x pop_size of a run with a callback
MaxAliasGenes == 2    \* genes x courses of the list objects
TournamentSize == 3   \* selection's default tournament_size
MaxGuiCourses == 2  \* courses added in the GUI
MinRun == 10        \* lower end of the population and generations sliders

\* difficulties of the courses of test_app.py, repeated cyclically
course_list(n) ==
    [i \in 1 .. n |->
        [id |-> i,
         name |-> <<"CSE 316", "CSE 406", "CSE 407">>[((i - 1) % 3) + 1],
         difficulty |-> <<4, 3, 5, 1, 2>>[((i - 1) % 5) + 1]]]

\* max_hours_per_day: below one slot, exactly one slot, exactly two, the default
max_hours_choices == {Q(1), R(3, 2), Q(3), Q(4)}

crossover_rates == {Q(0), R(8, 10), Q(1)}
mutation_rates == {Q(0), R(1, 10), R(1, 2), Q(1)}

\* every chromosome of the configured length, valid or not
all_chromosomes == [1 .. chromosome_length -> gene_choices]

grid_hours ==
    {R(k, GridDen) : k \in -GridOver .. 8 * GridDen + GridOver} \cup {Q(-5)}
grid_difficulty ==
    {R(k, GridDen) : k \in -GridOver .. 5 * GridDen + GridOver} \cup {Q(99)}

\* min(max(x, lo), hi), the clamp the clamping law is stated with
clamp(x, lo, hi) == RMin(RMax(x, lo), hi)

ga_idle ==
    /\ courses = course_list(1)
    /\ days = 1
    /\ slots_per_day = 1
    /\ max_hours_per_day = Q(4)

evolve_idle ==
    /\ pop_size = 0
    /\ generations = 0
    /\ pc = "idle"
    /\ gen = 0
    /\ population = <<>>
    /\ fitness_scores = <<>>
    /\ selected = <<>>
    /\ best_fitness_history = <<>>
    /\ best_schedule = <<>>
    /\ progress_callback = FALSE
    /\ progress_calls = <<>>

call_idle ==
    /\ fn = "none"
    /\ arg_chromosome = <<>>
    /\ arg_parent2 = <<>>
    /\ arg_rate = Q(0)
    /\ ret = <<>>
    /\ heap = <<>>

stress_idle ==
    /\ daily_hours = Q(0)
    /\ avg_difficulty = Q(0)
    /\ stress_value = Q(0)

no_request == [caller |-> "none"]

\* the defaults of the sliders (population 50, generations 100, 7 days, 3 slots, 4 h)
default_sliders ==
    [pop_size |-> 50, generations |-> 100, days |-> 7, slots |-> 3, max_hours |-> 4]

\* nothing has been decoded yet
nothing_shown == [by |-> "none", outcome |-> "none"]

caller_idle ==
    /\ request = no_request
    /\ sliders = default_sliders
    /\ gui_courses = <<>>
    /\ is_generating = FALSE
    /\ workers = 0
    /\ shown = nothing_shown

(***************************************************************************)
(* SpecStress: calculate_stress applied to every input of the grid         *)
(***************************************************************************)
InitStress ==
    /\ caller_idle
    /\ ga_idle
    /\ evolve_idle
    /\ call_idle
    /\ daily_hours \in grid_hours
    /\ avg_difficulty \in grid_difficulty
    /\ stress_value = Q(0)

CalculateStress ==
    /\ fn = "none"
    /\ fn' = "calculate_stress"
    /\ stress_value' = calculate_stress(daily_hours, avg_difficulty)
    /\ UNCHANGED <<callerVars, gaVars, evolveVars, heap, arg_chromosome, arg_parent2, arg_rate,
                   ret, daily_hours, avg_difficulty>>

NextStress == CalculateStress

SpecStress == InitStress /\ [][NextStress]_vars

(***************************************************************************)
(* SpecOps: the GA operators applied to arbitrary chromosomes              *)
(***************************************************************************)
InitOps ==
    /\ caller_idle
    /\ \E n \in 1 .. MaxCourses : courses = course_list(n)
    /\ days \in 1 .. MaxGenes
    /\ slots_per_day \in 1 .. MaxGenes
    /\ Len(courses) * days * slots_per_day <= MaxGenes
    /\ max_hours_per_day \in max_hours_choices
    /\ evolve_idle
    /\ call_idle
    /\ stress_idle

CallFix ==
    /\ fn = "none"
    /\ \E x \in all_chromosomes :
        /\ arg_chromosome' = x
        /\ ret' \in fix_chromosome(x)
    /\ fn' = "fix_chromosome"
    /\ UNCHANGED <<callerVars, gaVars, evolveVars, heap, stressVars, arg_parent2, arg_rate>>

\* fix_chromosome applied to what fix_chromosome returned
CallFixAgain ==
    /\ fn = "fix_chromosome"
    /\ arg_chromosome' = ret
    /\ arg_parent2' = arg_chromosome     \* kept: what the first call was given
    /\ ret' \in fix_chromosome(ret)
    /\ fn' = "fix_chromosome_again"
    /\ UNCHANGED <<callerVars, gaVars, evolveVars, heap, stressVars, arg_rate>>

CallCrossover ==
    /\ fn = "none"
    /\ \E p1 \in all_chromosomes, p2 \in all_chromosomes, r \in crossover_rates :
        /\ arg_chromosome' = p1
        /\ arg_parent2' = p2
        /\ arg_rate' = r
        /\ ret' \in crossover(p1, p2, r)
    /\ fn' = "crossover"
    /\ UNCHANGED <<callerVars, gaVars, evolveVars, heap, stressVars>>

CallMutate ==
    /\ fn = "none"
    /\ \E x \in all_chromosomes, r \in mutation_rates :
        /\ arg_chromosome' = x
        /\ arg_rate' = r
        /\ ret' \in mutate(x, r)
    /\ fn' = "mutate"
    /\ UNCHANGED <<callerVars, gaVars, evolveVars, heap, stressVars, arg_parent2>>

CallEvaluateFitness ==
    /\ fn = "none"
    /\ \E x \in all_chromosomes :
        /\ arg_chromosome' = x
        /\ ret' = evaluate_fitness(x)
    /\ fn' = "evaluate_fitness"
    /\ UNCHANGED <<callerVars, gaVars, evolveVars, heap, stressVars, arg_parent2, arg_rate>>

CallCreateRandomChromosome ==
    /\ fn = "none"
    /\ ret' \in create_random_chromosome
    /\ fn' = "create_random_chromosome"
    /\ UNCHANGED <<callerVars, gaVars, evolveVars, heap, stressVars, arg_chromosome, arg_parent2,
                   arg_rate>>

NextOps ==
    \/ CallCreateRandomChromosome
    \/ CallFix
    \/ CallFixAgain
    \/ CallCrossover
    \/ CallMutate
    \/ CallEvaluateFitness

SpecOps == InitOps /\ [][NextOps]_vars

(***************************************************************************)
(* Specification SpecAlias: the operators on list objects                  *)
(* A chromosome is a Python list: heap[r] is the content of the object     *)
(* with reference r. An operator receives references and returns           *)
(* [exc, heap, refs]: the heap after the call and the references returned. *)
(***************************************************************************)
\* a new list object holding v
new_list(h, v) == [heap |-> Append(h, v), ref |-> Len(h) + 1]

\* chromosome.copy()
list_copy(h, r) == new_list(h, h[r])

\* fix_chromosome: fixed = chromosome.copy() is written in place and returned
fix_chromosome_ref(h, r) == {new_list(h, v) : v \in fix_chromosome(h[r])}

\* "if not self.is_valid_chromosome(child): child = self.fix_chromosome(child)"
repair_ref(h, r) ==
    IF is_valid_chromosome(h[r]) THEN {[heap |-> h, ref |-> r]}
    ELSE fix_chromosome_ref(h, r)

\* selection: selected.append(population[winner].copy()) for each tournament
selection_ref(h, pop_refs, scores, tournament_size) ==
    IF tournament_size > Len(pop_refs) THEN {[exc |-> "ValueError", heap |-> h, refs |-> <<>>]}
    ELSE LET winners == {tournament_winner(idx, scores) :
                           idx \in random_sample(Len(pop_refs), tournament_size)}
         IN  {[exc |-> "none",
               heap |-> h \o [k \in DOMAIN pop_refs |-> h[pop_refs[w[k]]]],
               refs |-> [k \in DOMAIN pop_refs |-> Len(h) + k]] :
              w \in [DOMAIN pop_refs -> winners]}

\* A plausible slip: without a cut the parents themselves are returned.
crossover_ref_returns_parents(h, r1, r2, crossover_rate) ==
    UNION {
        IF cut
        THEN IF Len(h[r1]) - 1 < 1
             THEN {[exc |-> "ValueError", heap |-> h, refs |-> <<>>]}
             ELSE UNION {
                    LET c1 == new_list(h, splice(h[r1], h[r2], point))
                        c2 == new_list(c1.heap, splice(h[r2], h[r1], point))
                    IN  UNION {
                            {[exc |-> "none", heap |-> f2.heap, refs |-> <<f1.ref, f2.ref>>] :
                                f2 \in repair_ref(f1.heap, c2.ref)} :
                            f1 \in repair_ref(c2.heap, c1.ref)} :
                    point \in 1 .. Len(h[r1]) - 1}
        ELSE {[exc |-> "none", heap |-> h, refs |-> <<r1, r2>>]} :
        cut \in random_below(crossover_rate)}

\* crossover: the children of a cut are new lists (slices joined), repaired
\* into further new lists if invalid; without a cut, copies of the parents
crossover_ref(h, r1, r2, crossover_rate) ==
    UNION {
        IF cut
        THEN IF Len(h[r1]) - 1 < 1
             THEN {[exc |-> "ValueError", heap |-> h, refs |-> <<>>]}
             ELSE UNION {
                    LET c1 == new_list(h, splice(h[r1], h[r2], point))
                        c2 == new_list(c1.heap, splice(h[r2], h[r1], point))
                    IN  UNION {
                            {[exc |-> "none", heap |-> f2.heap, refs |-> <<f1.ref, f2.ref>>] :
                                f2 \in repair_ref(f1.heap, c2.ref)} :
                            f1 \in repair_ref(c2.heap, c1.ref)} :
                    point \in 1 .. Len(h[r1]) - 1}
        ELSE LET a == list_copy(h, r1)
                 b == list_copy(a.heap, r2)
             IN  {[exc |-> "none", heap |-> b.heap, refs |-> <<a.ref, b.ref>>]} :
        cut \in random_below(crossover_rate)}

\* mutate's loop: mutated[i] = ... writes into the object `mutated` refers to
RECURSIVE mutate_loop_ref(_, _, _, _)
mutate_loop_ref(h, mutated, i, mutation_rate) ==
    IF i >= Len(h[mutated]) THEN {[heap |-> h, ref |-> mutated]}
    ELSE UNION {mutate_loop_ref([h EXCEPT ![mutated] = m], mutated, i + 1, mutation_rate) :
                m \in mutate_gene(h[mutated], i, mutation_rate)}

\* mutate: mutated = chromosome.copy(), the loop, the final validation
mutate_ref(h, r, mutation_rate) ==
    LET mutated == list_copy(h, r)
    IN  UNION {repair_ref(m.heap, m.ref) :
               m \in mutate_loop_ref(mutated.heap, mutated.ref, 0, mutation_rate)}

operator_names == {"selection", "crossover", "mutate", "fix_chromosome"}

aliasFrame == <<callerVars, gaVars, stressVars, evolveVars, arg_chromosome, arg_parent2>>

\* the smallest population selection accepts, as list objects: reference i
\* holds member i
InitAlias ==
    /\ caller_idle
    /\ \E n \in 1 .. MaxCourses : courses = course_list(n)
    /\ days \in 1 .. MaxAliasGenes
    /\ slots_per_day \in 1 .. MaxAliasGenes
    /\ Len(courses) * days * slots_per_day <= MaxAliasGenes
    /\ max_hours_per_day \in max_hours_choices
    /\ pop_size = TournamentSize
    /\ generations = 0
    /\ pc = "idle"
    /\ gen = 0
    /\ population \in [1 .. TournamentSize -> all_chromosomes]
    /\ fitness_scores = <<>>
    /\ selected = <<>>
    /\ best_fitness_history = <<>>
    /\ best_schedule = <<>>
    /\ progress_callback = FALSE
    /\ progress_calls = <<>>
    /\ fn = "none"
    /\ arg_chromosome = <<>>
    /\ arg_parent2 = <<>>
    /\ arg_rate = Q(0)
    /\ ret = <<>>
    /\ heap = population
    /\ stress_idle

\* selected = self.selection(population, fitness_scores)
AliasSelection ==
    /\ fn = "none"
    /\ \E o \in selection_ref(heap, [i \in DOMAIN population |-> i],
                              fitness_list(population), 3) :
        heap' = o.heap /\ ret' = o.refs
    /\ fn' = "selection"
    /\ UNCHANGED <<aliasFrame, arg_rate>>

\* child1, child2 = self.crossover(population[0], population[1])
AliasCrossover ==
    /\ fn = "none"
    /\ \E r \in crossover_rates :
        /\ arg_rate' = r
        /\ \E o \in crossover_ref(heap, 1, 2, r) : heap' = o.heap /\ ret' = o.refs
    /\ fn' = "crossover"
    /\ UNCHANGED aliasFrame

\* self.mutate(population[0])
AliasMutate ==
    /\ fn = "none"
    /\ \E r \in mutation_rates :
        /\ arg_rate' = r
        /\ \E o \in mutate_ref(heap, 1, r) : heap' = o.heap /\ ret' = <<o.ref>>
    /\ fn' = "mutate"
    /\ UNCHANGED aliasFrame

\* self.fix_chromosome(population[0])
AliasFix ==
    /\ fn = "none"
    /\ \E o \in fix_chromosome_ref(heap, 1) : heap' = o.heap /\ ret' = <<o.ref>>
    /\ fn' = "fix_chromosome"
    /\ UNCHANGED <<aliasFrame, arg_rate>>

\* a later in-place change of a returned list: returned[k][i] = g
WriteInPlace ==
    /\ fn \in operator_names
    /\ \E k \in DOMAIN ret :
        \E i \in DOMAIN heap[ret[k]], g \in gene_choices :
            heap' = [heap EXCEPT ![ret[k]][i] = g]
    /\ fn' = "written"
    /\ UNCHANGED <<aliasFrame, arg_rate, ret>>

NextAlias ==
    \/ AliasSelection
    \/ AliasCrossover
    \/ AliasMutate
    \/ AliasFix
    \/ WriteInPlace

SpecAlias == InitAlias /\ [][NextAlias]_vars

(***************************************************************************)
(* SpecReadable: schedule_to_readable applied to chromosomes of up to      *)
(* MaxDays x MaxSlots genes                                                *)
(***************************************************************************)
\* chromosomes of the configured length that repeat a pattern of genes
pattern_chromosomes ==
    {[k \in 1 .. chromosome_length |-> p[((k - 1) % Len(p)) + 1]] :
        p \in UNION {[1 .. n -> gene_choices] : n \in 1 .. MaxPattern}}

InitReadable ==
    /\ caller_idle
    /\ \E n \in 1 .. MaxCourses : courses = course_list(n)
    /\ days \in 1 .. MaxDays
    /\ slots_per_day \in 1 .. MaxSlots
    /\ max_hours_per_day = Q(4)
    /\ evolve_idle
    /\ call_idle
    /\ stress_idle

CallScheduleToReadable ==
    /\ fn = "none"
    /\ \E x \in pattern_chromosomes :
        /\ arg_chromosome' = x
        /\ ret' = schedule_to_readable(x)
    /\ fn' = "schedule_to_readable"
    /\ UNCHANGED <<callerVars, gaVars, evolveVars, heap, stressVars, arg_parent2, arg_rate>>

NextReadable == CallScheduleToReadable

SpecReadable == InitReadable /\ [][NextReadable]_vars

(***************************************************************************)
(* SpecCallers: the two callers of evolve.  POST /api/generate (app.py)    *)
(* runs the GA inside the request; StudyPlannerGUI.generate_schedule       *)
(* starts a thread that runs _run_ga while the main thread keeps serving   *)
(* the Add Course and Clear All buttons.  The run itself is reduced to its *)
(* generation counter; pc is the position of the run:                      *)
(*   "idle" | "rejected" | "thread_started" | "evolve" | "finished"        *)
(***************************************************************************)
\* bodies of POST /api/generate: any JSON numbers may be sent
web_requests ==
    [caller : {"web"},
     courses : 0 .. MaxCourses,
     days : {-1, 0, 1, 7},
     slots : {0, 1, 3},
     max_hours : {Q(-1), Q(0), Q(1), Q(4)},
     population : {2, 50},
     generations : 1 .. MaxGen]

\* positions of the sliders: days 3..7, slots 1..5, max hours 1..8,
\* population and generations from 10 (kept at MinRun)
slider_positions ==
    [pop_size : {MinRun}, generations : {MinRun}, days : 3 .. 7, slots : 1 .. 5,
     max_hours : {1, 4, 8}]

InitCallers ==
    /\ ga_idle
    /\ evolve_idle
    /\ call_idle
    /\ stress_idle
    /\ gui_courses = <<>>
    /\ is_generating = FALSE
    /\ workers = 0
    /\ shown = nothing_shown
    /\ \/ request \in web_requests /\ sliders = default_sliders
       \/ request = [caller |-> "gui"] /\ sliders \in slider_positions

\* POST /api/generate
ApiGenerate ==
    /\ request.caller = "web"
    /\ pc = "idle"
    /\ IF request.courses = 0
       THEN /\ pc' = "rejected"
            /\ UNCHANGED <<gaVars, pop_size, generations>>
       ELSE /\ courses' = course_list(request.courses)
            /\ days' = request.days
            /\ slots_per_day' = request.slots
            /\ max_hours_per_day' = request.max_hours
            /\ pop_size' = request.population
            /\ generations' = request.generations
            /\ pc' = "evolve"
    /\ UNCHANGED <<callerVars, callbackVars, gen, population, fitness_scores, selected,
                   best_fitness_history, best_schedule, callVars, stressVars>>

\* the list object of the GUI is the one the GA reads once _run_ga built the GA
ga_reads_gui_list == request.caller = "gui" /\ pc = "evolve"

\* StudyPlannerGUI.add_course with valid entries: self.courses.append(new_course)
AddCourse ==
    /\ request.caller = "gui"
    /\ Len(gui_courses) < MaxGuiCourses
    /\ LET new_course_id == Len(gui_courses) + 1
           new_course == course_list(new_course_id)[new_course_id]
       IN  gui_courses' = Append(gui_courses, new_course)
    /\ courses' = IF ga_reads_gui_list THEN gui_courses' ELSE courses
    /\ UNCHANGED <<request, sliders, is_generating, workers, shown, days, slots_per_day,
                   max_hours_per_day, evolveVars, callVars, stressVars>>

\* StudyPlannerGUI.clear_courses, confirmed: self.courses.clear()
ClearCourses ==
    /\ request.caller = "gui"
    /\ gui_courses # <<>>
    /\ gui_courses' = <<>>
    /\ courses' = IF ga_reads_gui_list THEN gui_courses' ELSE courses
    /\ UNCHANGED <<request, sliders, is_generating, workers, shown, days, slots_per_day,
                   max_hours_per_day, evolveVars, callVars, stressVars>>

\* the error list of StudyPlannerGUI.validate_parameters is non-empty
validate_parameters_errors ==
    \/ sliders.days < 3
    \/ sliders.slots < 1
    \/ sliders.max_hours < 1
    \/ /\ gui_courses # <<>>
       /\ RLt(RMul(Q(sliders.days * sliders.slots), R(3, 2)),
              RMul(Q(Len(gui_courses)), R(3, 2)))

\* A plausible slip: generate_schedule does not look at is_generating.
GenerateSchedule_unguarded ==
    /\ request.caller = "gui"
    /\ IF gui_courses = <<>> \/ validate_parameters_errors
       THEN UNCHANGED <<is_generating, workers, pc>>
       ELSE is_generating' = TRUE /\ workers' = workers + 1 /\ pc' = "thread_started"
    /\ UNCHANGED <<request, sliders, gui_courses, shown, callbackVars, gaVars, pop_size,
                   generations, gen, population, fitness_scores, selected,
                   best_fitness_history, best_schedule, callVars, stressVars>>

\* StudyPlannerGUI.generate_schedule: the checks, is_generating = True, thread.start()
GenerateSchedule ==
    /\ request.caller = "gui"
    /\ IF gui_courses = <<>> \/ validate_parameters_errors \/ is_generating
       THEN UNCHANGED <<is_generating, workers, pc>>
       ELSE is_generating' = TRUE /\ workers' = workers + 1 /\ pc' = "thread_started"
    /\ UNCHANGED <<request, sliders, gui_courses, shown, callbackVars, gaVars, pop_size,
                   generations, gen, population, fitness_scores, selected,
                   best_fitness_history, best_schedule, callVars, stressVars>>

\* StudyPlannerGUI._run_ga up to the call of evolve: self.ga = StudyScheduleGA(...)
RunGa ==
    /\ pc = "thread_started"
    /\ pop_size' = sliders.pop_size
    /\ generations' = sliders.generations
    /\ courses' = gui_courses
    /\ days' = sliders.days
    /\ slots_per_day' = sliders.slots
    /\ max_hours_per_day' = Q(sliders.max_hours)
    /\ gen' = 0
    /\ pc' = "evolve"
    /\ UNCHANGED <<callerVars, callbackVars, population, fitness_scores, selected,
                   best_fitness_history, best_schedule, callVars, stressVars>>

\* one generation of the run
EvolveGeneration ==
    /\ pc = "evolve"
    /\ gen < generations
    /\ gen' = gen + 1
    /\ UNCHANGED <<callerVars, callbackVars, gaVars, pop_size, generations, pc, population,
                   fitness_scores, selected, best_fitness_history,
                   best_schedule, callVars, stressVars>>

\* schedules evolve can return for the GA's parameters and list: one slot a
\* day holds the same gene wherever a day has room for one slot's hours
returned_schedules ==
    {[k \in 1 .. days * slots_per_day |->
         IF (k - 1) % slots_per_day = 0 /\ RLe(hours_per_slot, max_hours_per_day)
         THEN g ELSE 0] :
     g \in gene_choices}

\* self.ga.schedule_to_readable(self.best_schedule) as refresh_results and
\* export_results call it: self.ga.courses is the list object self.courses;
\* the slices read the first ga.days x ga.slots_per_day genes at most
decode_outcome(schedule) ==
    LET read == {k \in DOMAIN schedule : k <= days * slots_per_day}
    IN  IF schedule = <<>> THEN "no_results"
        ELSE IF \E k \in read :
                    /\ schedule[k] # 0
                    /\ \A n \in DOMAIN gui_courses : gui_courses[n].id # schedule[k]
             THEN "StopIteration"
             ELSE IF Len(schedule) # days * slots_per_day THEN "misdecoded"
                  ELSE "decoded"

\* evolve returned: self.best_schedule, self.fitness_history = ...;
\* self.refresh_results(); finally: is_generating = False
EvolveEnd ==
    /\ pc = "evolve"
    /\ gen >= generations
    /\ pc' = "finished"
    /\ IF request.caller = "gui"
       THEN /\ \E returned \in returned_schedules :
                /\ best_schedule' = returned
                /\ shown' = [by |-> "run", outcome |-> decode_outcome(returned)]
            /\ is_generating' = FALSE
            /\ workers' = workers - 1
       ELSE UNCHANGED <<best_schedule, shown, is_generating, workers>>
    /\ UNCHANGED <<request, sliders, gui_courses, callbackVars, gaVars, pop_size,
                   generations, gen, population, fitness_scores, selected,
                   best_fitness_history, callVars, stressVars>>

\* evolve raised: except Exception (a 500 answer in app.py);
\* finally: is_generating = False
EvolveRaises ==
    /\ pc = "evolve"
    /\ pc' = "finished"
    /\ IF request.caller = "gui"
       THEN is_generating' = FALSE /\ workers' = workers - 1
       ELSE UNCHANGED <<is_generating, workers>>
    /\ UNCHANGED <<request, sliders, gui_courses, shown, callbackVars, gaVars, pop_size,
                   generations, gen, population, fitness_scores, selected,
                   best_fitness_history, best_schedule, callVars, stressVars>>

\* the steps of the thread that runs _run_ga (of the request, in app.py)
Worker ==
    \/ RunGa
    \/ EvolveGeneration
    \/ EvolveEnd
    \/ EvolveRaises

NextCallers ==
    \/ ApiGenerate
    \/ AddCourse
    \/ ClearCourses
    \/ GenerateSchedule
    \/ RunGa
    \/ EvolveGeneration
    \/ EvolveEnd
    \/ EvolveRaises

SpecCallers == InitCallers /\ [][NextCallers]_vars


(***************************************************************************)
(* Specification SpecResults: the GUI with its sliders moved between runs  *)
(* and its results refreshed and exported                                  *)
(***************************************************************************)
\* the ends of the days and slots sliders, the default of the hours slider
slider_stops ==
    {s \in slider_positions : s.days \in {3, 7} /\ s.slots \in {1, 5} /\ s.max_hours = 4}

InitResults ==
    /\ ga_idle
    /\ evolve_idle
    /\ call_idle
    /\ stress_idle
    /\ gui_courses = <<>>
    /\ is_generating = FALSE
    /\ workers = 0
    /\ shown = nothing_shown
    /\ request = [caller |-> "gui"]
    /\ sliders \in slider_stops

\* a slider is dragged (the sliders stay enabled during a run)
MoveSliders ==
    /\ request.caller = "gui"
    /\ sliders' \in slider_stops \ {sliders}
    /\ UNCHANGED <<request, gui_courses, is_generating, workers, shown, gaVars,
                   evolveVars, callVars, stressVars>>

\* StudyPlannerGUI.refresh_results (the Refresh button)
RefreshResults ==
    /\ request.caller = "gui"
    /\ shown' = [by |-> "refresh", outcome |-> decode_outcome(best_schedule)]
    /\ UNCHANGED <<request, sliders, gui_courses, is_generating, workers, gaVars,
                   evolveVars, callVars, stressVars>>

\* StudyPlannerGUI.export_results with a file name chosen
ExportResults ==
    /\ request.caller = "gui"
    /\ shown' = [by |-> "export", outcome |-> decode_outcome(best_schedule)]
    /\ UNCHANGED <<request, sliders, gui_courses, is_generating, workers, gaVars,
                   evolveVars, callVars, stressVars>>

NextResults ==
    \/ AddCourse
    \/ ClearCourses
    \/ MoveSliders
    \/ GenerateSchedule
    \/ RunGa
    \/ EvolveGeneration
    \/ EvolveEnd
    \/ EvolveRaises
    \/ RefreshResults
    \/ ExportResults

SpecResults == InitResults /\ [][NextResults]_vars

(***************************************************************************)
(* Specification SpecWorkerFair: the GUI's course and generate handlers    *)
(* and its worker thread, which is scheduled until it ends                 *)
(***************************************************************************)
NextGui ==
    \/ AddCourse
    \/ ClearCourses
    \/ GenerateSchedule
    \/ RunGa
    \/ EvolveGeneration
    \/ EvolveEnd
    \/ EvolveRaises

SpecWorkerFair == InitResults /\ [][NextGui]_vars /\ WF_vars(Worker)

(***************************************************************************)
(* Spec: one call of evolve(pop_size, generations) on a StudyScheduleGA    *)
(***************************************************************************)
Init ==
    /\ caller_idle
    /\ \E n \in 1 .. MaxCourses : courses = course_list(n)
    /\ days \in 1 .. MaxWork
    /\ slots_per_day \in 1 .. MaxWork
    /\ max_hours_per_day \in max_hours_choices
    /\ pop_size \in 2 .. MaxPop
    /\ generations \in 1 .. MaxGen
    /\ Len(courses) * days * slots_per_day * pop_size <= MaxWork
    /\ pc = "idle"
    /\ gen = 0
    /\ population = <<>>
    /\ fitness_scores = <<>>
    /\ selected = <<>>
    /\ best_fitness_history = <<>>
    /\ best_schedule = <<>>
    /\ progress_callback = FALSE
    /\ progress_calls = <<>>
    /\ call_idle
    /\ stress_idle

\* A plausible slip: the history keeps only the latest generation's maximum.
Evaluate_overwrites ==
    /\ pc = "evaluate"
    /\ fitness_scores' = fitness_list(population)
    /\ best_fitness_history' = <<max_fitness(fitness_scores')>>
    /\ pc' = "select"
    /\ UNCHANGED <<callerVars, callbackVars, gaVars, pop_size, generations, gen, population, selected,
                   best_schedule, callVars, stressVars>>

\* population = self.create_initial_population(pop_size); best_fitness_history = []
EvolveStart ==
    /\ pc = "idle"
    /\ population' \in [1 .. pop_size -> create_random_chromosome]
    /\ best_fitness_history' = <<>>
    /\ gen' = 0
    /\ pc' = IF generations > 0 THEN "evaluate" ELSE "final"
    /\ UNCHANGED <<callerVars, callbackVars, gaVars, pop_size, generations, fitness_scores, selected,
                   best_schedule, callVars, stressVars>>

\* fitness_scores = [...]; best_fitness_history.append(max(fitness_scores))
Evaluate ==
    /\ pc = "evaluate"
    /\ fitness_scores' = fitness_list(population)
    /\ best_fitness_history' = Append(best_fitness_history, max_fitness(fitness_scores'))
    /\ pc' = "select"
    /\ UNCHANGED <<callerVars, callbackVars, gaVars, pop_size, generations, gen, population, selected,
                   best_schedule, callVars, stressVars>>

\* selected = self.selection(population, fitness_scores)
\* (fitness_scores is not read again before it is reassigned: it is cleared)
Select ==
    /\ pc = "select"
    /\ \E o \in selection(population, fitness_scores, 3) :
        IF o.exc # "none"
        THEN pc' = "raised" /\ UNCHANGED selected
        ELSE pc' = "reproduce" /\ selected' = o.val
    /\ fitness_scores' = <<>>
    /\ UNCHANGED <<callerVars, callbackVars, gaVars, pop_size, generations, gen, population,
                   best_fitness_history, best_schedule, callVars, stressVars>>

\* progress_callback(gen + 1, generations, best_fitness_history[-1]), if supplied:
\* the calls after the end of the generation's loop body
report_progress ==
    IF progress_callback
    THEN Append(progress_calls,
                <<gen + 1, generations, best_fitness_history[Len(best_fitness_history)]>>)
    ELSE progress_calls

\* A plausible slip: new_population is kept whole, not cut to pop_size.
Reproduce_untruncated ==
    /\ pc = "reproduce"
    /\ \E o \in reproduce_from(selected, 0) :
        IF o.exc # "none"
        THEN pc' = "raised" /\ UNCHANGED <<population, gen, progress_calls>>
        ELSE /\ population' = o.val
             /\ gen' = gen + 1
             /\ progress_calls' = report_progress
             /\ pc' = IF gen + 1 < generations THEN "evaluate" ELSE "final"
    /\ selected' = <<>>
    /\ UNCHANGED <<callerVars, progress_callback, gaVars, pop_size, generations,
                   fitness_scores, best_fitness_history, best_schedule, callVars,
                   stressVars>>

\* A plausible slip: the callback is handed the loop variable, not gen + 1.
Reproduce_reports_loop_variable ==
    /\ pc = "reproduce"
    /\ \E o \in {IF r.exc # "none" THEN r ELSE Returned(SubSeq(r.val, 1, pop_size)) :
                 r \in reproduce_from(selected, 0)} :
        IF o.exc # "none"
        THEN pc' = "raised" /\ UNCHANGED <<population, gen, progress_calls>>
        ELSE /\ population' = o.val
             /\ gen' = gen + 1
             /\ progress_calls' =
                    IF progress_callback
                    THEN Append(progress_calls,
                                <<gen, generations,
                                  best_fitness_history[Len(best_fitness_history)]>>)
                    ELSE progress_calls
             /\ pc' = IF gen + 1 < generations THEN "evaluate" ELSE "final"
    /\ selected' = <<>>
    /\ UNCHANGED <<callerVars, progress_callback, gaVars, pop_size, generations,
                   fitness_scores, best_fitness_history, best_schedule, callVars,
                   stressVars>>

\* the crossover/mutation loop, population = new_population[:pop_size] and the
\* call of the progress callback
\* (selected is not read again before it is reassigned: it is cleared)
Reproduce ==
    /\ pc = "reproduce"
    /\ \E o \in {IF r.exc # "none" THEN r ELSE Returned(SubSeq(r.val, 1, pop_size)) :
                 r \in reproduce_from(selected, 0)} :
        IF o.exc # "none"
        THEN pc' = "raised" /\ UNCHANGED <<population, gen, progress_calls>>
        ELSE /\ population' = o.val
             /\ gen' = gen + 1
             /\ progress_calls' = report_progress
             /\ pc' = IF gen + 1 < generations THEN "evaluate" ELSE "final"
    /\ selected' = <<>>
    /\ UNCHANGED <<callerVars, progress_callback, gaVars, pop_size, generations,
                   fitness_scores, best_fitness_history, best_schedule, callVars,
                   stressVars>>

\* final_fitness, best_idx = np.argmax(final_fitness), return
Finish ==
    /\ pc = "final"
    /\ LET final_fitness == fitness_list(population)
       IN  best_schedule' = population[argmax(final_fitness)]
    /\ pc' = "done"
    /\ UNCHANGED <<callerVars, callbackVars, gaVars, pop_size, generations, gen, population, fitness_scores,
                   selected, best_fitness_history, callVars, stressVars>>

Next ==
    \/ EvolveStart
    \/ Evaluate
    \/ Select
    \/ Reproduce
    \/ Finish

Spec == Init /\ [][Next]_vars

(***************************************************************************)
(* Specification SpecCallback: evolve with and without a progress callback *)
(***************************************************************************)
InitCallback ==
    /\ caller_idle
    /\ courses = course_list(1)
    /\ days \in 1 .. MaxCallbackWork
    /\ slots_per_day \in 1 .. MaxCallbackWork
    /\ max_hours_per_day \in max_hours_choices
    /\ pop_size \in 3 .. MaxCallbackWork
    /\ generations \in 1 .. MaxGen
    /\ days * slots_per_day * pop_size <= MaxCallbackWork
    /\ pc = "idle"
    /\ gen = 0
    /\ population = <<>>
    /\ fitness_scores = <<>>
    /\ selected = <<>>
    /\ best_fitness_history = <<>>
    /\ best_schedule = <<>>
    /\ progress_callback \in BOOLEAN
    /\ progress_calls = <<>>
    /\ call_idle
    /\ stress_idle

SpecCallback == InitCallback /\ [][Next]_vars

(***************************************************************************)
(* Claims                                                                  *)
(***************************************************************************)
\* every day's hours (non-zero slots x 1.5) are <= max_hours_per_day
within_daily_limit(c) ==
    \A day \in 0 .. days - 1 :
        RLe(RMul(Q(count_non_zero(day_slice(c, day))), R(3, 2)), max_hours_per_day)

\* C1: every individual of every population evolve holds, and the schedule it
\* returns, keeps every day's hours within max_hours_per_day.
C1_PopulationsValid ==
    /\ \A i \in DOMAIN population : within_daily_limit(population[i])
    /\ pc = "done" => within_daily_limit(best_schedule)

\* evolve returned, after at least one generation, a schedule with a day filled
\* up to the capacity although the day has more slots than that
C1_Witness ==
    /\ pc = "done"
    /\ gen >= 1
    /\ capacity > 0
    /\ slots_per_day > capacity
    /\ \E day \in 0 .. days - 1 :
        count_non_zero(day_slice(best_schedule, day)) = capacity

\* C2: within the interface domain (pop_size >= 2, days >= 1, slots_per_day >= 1,
\* generations >= 1, max_hours_per_day > 0, courses non-empty) evolve never raises.
C2_EvolveNeverRaises == pc # "raised"

\* C3: the history gets one entry per generation, in generation order, no entry
\* changes once appended, and evolve returns with exactly `generations` entries.
C3_HistoryAppendOnly ==
    [][/\ Len(best_fitness_history') \in
            {Len(best_fitness_history), Len(best_fitness_history) + 1}
       /\ \A k \in 1 .. Len(best_fitness_history) :
            best_fitness_history'[k] = best_fitness_history[k]
       /\ Len(best_fitness_history') = Len(best_fitness_history) + 1
            => pc = "evaluate" /\ Len(best_fitness_history) = gen
       /\ pc' = "done" => Len(best_fitness_history') = generations]_vars

\* evolve returned after two generations whose recorded maxima differ
C3_Witness ==
    /\ pc = "done"
    /\ generations = 2
    /\ Len(best_fitness_history) = 2
    /\ best_fitness_history[1] # best_fitness_history[2]

\* C4 as stated: crossover always returns two children of the parents' length,
\* both valid, for any parents and any crossover_rate.
C4_CrossoverAlwaysValid ==
    fn = "crossover" =>
        /\ ret.exc = "none"
        /\ Len(ret.val[1]) = Len(arg_chromosome)
        /\ Len(ret.val[2]) = Len(arg_parent2)
        /\ within_daily_limit(ret.val[1])
        /\ within_daily_limit(ret.val[2])

\* C4 as amended: crossover raises only when a cut is attempted on parents of
\* length 1; when it returns, both children have the parents' length, and they
\* are both valid unless they are the uncut copies of the parents (so always
\* when crossover_rate = 1, and always when both parents are valid).
C4_CrossoverChildren ==
    fn = "crossover" =>
        IF ret.exc = "none"
        THEN /\ Len(ret.val[1]) = Len(arg_chromosome)
             /\ Len(ret.val[2]) = Len(arg_parent2)
             /\ \/ ret.val = <<arg_chromosome, arg_parent2>>
                \/ within_daily_limit(ret.val[1]) /\ within_daily_limit(ret.val[2])
             /\ RLe(Q(1), arg_rate) =>
                    within_daily_limit(ret.val[1]) /\ within_daily_limit(ret.val[2])
             /\ within_daily_limit(arg_chromosome) /\ within_daily_limit(arg_parent2) =>
                    within_daily_limit(ret.val[1]) /\ within_daily_limit(ret.val[2])
        ELSE chromosome_length = 1 /\ RLt(Q(0), arg_rate)

\* a cut of two invalid parents came back as two valid children
C4_Witness ==
    /\ fn = "crossover"
    /\ ret.exc = "none"
    /\ ~within_daily_limit(arg_chromosome)
    /\ ~within_daily_limit(arg_parent2)
    /\ ret.val # <<arg_chromosome, arg_parent2>>
    /\ within_daily_limit(ret.val[1])
    /\ within_daily_limit(ret.val[2])

\* C5: fix_chromosome terminates on every chromosome, and what it returns has at
\* most floor(max_hours_per_day / 1.5) non-zero slots in every day, so is valid.
C5_FixYieldsValid ==
    /\ fn = "none" => \A x \in all_chromosomes : fix_chromosome(x) # {}
    /\ fn = "fix_chromosome" =>
        /\ Len(ret) = Len(arg_chromosome)
        /\ within_daily_limit(ret)
        /\ \A day \in 0 .. days - 1 :
            count_non_zero(day_slice(ret, day)) <= capacity

\* an invalid chromosome with a day two slots over the capacity was repaired
C5_Witness ==
    /\ fn = "fix_chromosome"
    /\ ~within_daily_limit(arg_chromosome)
    /\ \E day \in 0 .. days - 1 :
        count_non_zero(day_slice(arg_chromosome, day)) >= capacity + 2
    /\ ret # arg_chromosome

\* C6: repairing what a repair returned changes nothing, and a repair of a valid
\* chromosome returns an equal chromosome.
C6_FixIdempotent ==
    /\ fn = "fix_chromosome_again" => ret = arg_chromosome
    /\ fn = "fix_chromosome" /\ within_daily_limit(arg_chromosome) =>
        ret = arg_chromosome

\* the second repair was given the result of a first repair that cleared slots
C6_Witness ==
    /\ fn = "fix_chromosome_again"
    /\ arg_parent2 # arg_chromosome
    /\ ret = arg_chromosome

\* C7: mutate returns a chromosome of the input's length that is valid, whatever
\* the input and the mutation rate.
C7_MutateYieldsValid ==
    fn = "mutate" =>
        /\ Len(ret) = Len(arg_chromosome)
        /\ within_daily_limit(ret)

\* an invalid chromosome was mutated at a rate strictly between 0 and 1
C7_Witness ==
    /\ fn = "mutate"
    /\ ~within_daily_limit(arg_chromosome)
    /\ RLt(Q(0), arg_rate)
    /\ RLt(arg_rate, Q(1))
    /\ ret # arg_chromosome

\* C8: evaluate_fitness is never negative.
C8_FitnessFloor == fn = "evaluate_fitness" => RLe(Q(0), ret)

\* an overloaded schedule whose weighted penalties exceed its coverage scored 0
C8_Witness ==
    /\ fn = "evaluate_fitness"
    /\ ~within_daily_limit(arg_chromosome)
    /\ RLt(raw_fitness(arg_chromosome), Q(0))
    /\ ret = Q(0)

\* C9: calculate_stress lies in [0, 1] for every hours and difficulty value.
C9_StressInUnitInterval ==
    fn = "calculate_stress" => RLe(Q(0), stress_value) /\ RLe(stress_value, Q(1))

\* negative hours with a difficulty above 5 gave a positive stress
C9_Witness ==
    /\ fn = "calculate_stress"
    /\ RLt(daily_hours, Q(0))
    /\ RLt(Q(5), avg_difficulty)
    /\ RLt(Q(0), stress_value)

\* C10: calculate_stress(h, d) = calculate_stress(clamp(h, 0, 8), clamp(d, 1, 5)).
C10_ClampingLaw ==
    fn = "calculate_stress" =>
        stress_value = calculate_stress(clamp(daily_hours, Q(0), Q(8)),
                                        clamp(avg_difficulty, Q(1), Q(5)))

\* stress(-5, 3) was computed and equals stress(0, 3)
C10_Witness ==
    /\ fn = "calculate_stress"
    /\ daily_hours = Q(-5)
    /\ avg_difficulty = Q(3)
    /\ stress_value = calculate_stress(Q(0), Q(3))

\* the three output buckets of the rule base for the inputs of calculate_stress
stress_buckets ==
    apply_fuzzy_rules(fuzzify_hours(daily_hours), fuzzify_difficulty(avg_difficulty))

\* C11: the three output buckets total 0 only when all six membership degrees
\* (hours low/medium/high, difficulty easy/medium/hard) are exactly 0.
C11_ZeroTotalOnlyWithoutMembership ==
    fn = "calculate_stress" =>
        LET h == fuzzify_hours(daily_hours)
            d == fuzzify_difficulty(avg_difficulty)
            total == RAdd(RAdd(stress_buckets.low, stress_buckets.medium),
                          stress_buckets.high)
        IN  total = Q(0) =>
                /\ h.low = Q(0) /\ h.medium = Q(0) /\ h.high = Q(0)
                /\ d.easy = Q(0) /\ d.medium = Q(0) /\ d.hard = Q(0)

\* C12: stress(1, 1) < 0.5 < stress(6, 5), and for every h with 0 <= h < 2 at
\* difficulty 5 the stress is strictly above stress(3, 3), the matched medium load.
C12_ReferenceOrderings ==
    fn = "calculate_stress" =>
        /\ daily_hours = Q(1) /\ avg_difficulty = Q(1) => RLt(stress_value, R(1, 2))
        /\ daily_hours = Q(6) /\ avg_difficulty = Q(5) => RLt(R(1, 2), stress_value)
        /\ RLe(Q(0), daily_hours) /\ RLt(daily_hours, Q(2)) /\ avg_difficulty = Q(5)
             => RLt(calculate_stress(Q(3), Q(3)), stress_value)

\* stress(0.5, 5) was computed and is above stress(3, 3)
C12_Witness ==
    /\ fn = "calculate_stress"
    /\ daily_hours = R(1, 2)
    /\ avg_difficulty = Q(5)
    /\ RLt(calculate_stress(Q(3), Q(3)), stress_value)

\* the number of non-zero genes among the first n slots of a day
count_before(c, day, n) ==
    Cardinality({k \in 1 .. n : c[day * slots_per_day + k] # 0})

\* C13: create_random_chromosome returns a chromosome of length
\* days x slots_per_day that is valid: no day gets more than
\* floor(max_hours_per_day / 1.5) non-zero slots, and once a day has that many
\* every further slot of the day is 0.
C13_InitializerYieldsValid ==
    fn = "create_random_chromosome" =>
        /\ Len(ret) = days * slots_per_day
        /\ is_valid_chromosome(ret)
        /\ \A day \in 0 .. days - 1 :
            /\ count_non_zero(day_slice(ret, day)) <= capacity
            /\ \A n \in 1 .. slots_per_day :
                count_before(ret, day, n - 1) >= capacity =>
                    ret[day * slots_per_day + n] = 0

\* a chromosome came back whose day reached the capacity before its last slot,
\* which was therefore forced to rest
C13_Witness ==
    /\ fn = "create_random_chromosome"
    /\ capacity > 0
    /\ \E day \in 0 .. days - 1 :
        /\ count_before(ret, day, slots_per_day - 1) = capacity
        /\ ret[day * slots_per_day + slots_per_day] = 0

\* C14 as stated: where a day has more slots than the capacity, the initializer
\* can return a chromosome with a day above max_hours_per_day.
C14_InitializerCanOverload ==
    slots_per_day > capacity =>
        \E c \in create_random_chromosome : ~within_daily_limit(c)

\* C14 as amended: the cap of the initializer is hard; every chromosome it
\* returns is within max_hours_per_day on every day and a repair leaves it as is.
C14_InitializerCapIsHard ==
    fn = "create_random_chromosome" =>
        /\ within_daily_limit(ret)
        /\ fix_chromosome(ret) = {ret}

\* a chromosome came back with a day filled exactly to the limit of 3 hours
C14_Witness ==
    /\ fn = "create_random_chromosome"
    /\ max_hours_per_day = Q(3)
    /\ slots_per_day > 2
    /\ \E day \in 0 .. days - 1 : day_hours(day_slice(ret, day)) = Q(3)

\* the key the decoded schedule is to use for day d
expected_day_key(d) ==
    CASE d = 0 -> "Monday" [] d = 1 -> "Tuesday" [] d = 2 -> "Wednesday"
      [] d = 3 -> "Thursday" [] d = 4 -> "Friday" [] d = 5 -> "Saturday"
      [] d = 6 -> "Sunday" [] d = 7 -> "Day 7" [] d = 8 -> "Day 8"
      [] d = 9 -> "Day 9" [] OTHER -> "Day " \o ToString(d)

\* the key the decoded schedule is to use for slot s of a day
expected_slot_key(s) ==
    CASE s = 0 -> "Morning" [] s = 1 -> "Afternoon" [] s = 2 -> "Evening"
      [] s = 3 -> "Slot 3" [] s = 4 -> "Slot 4" [] OTHER -> "Slot " \o ToString(s)

summary_fields == {"Total Hours", "Avg Difficulty", "Stress Level"}

\* C15: schedule_to_readable yields exactly `days` distinct day keys (weekday
\* names for d < 7, 'Day d' from 7 on) and per day exactly slots_per_day slot
\* entries (Morning/Afternoon/Evening for s < 3, 'Slot s' from 3 on) plus the
\* three summary fields; each slot holds the activity's name or 'Rest'.
C15_ReadableShape ==
    fn = "schedule_to_readable" =>
        /\ DOMAIN ret = {expected_day_key(d) : d \in 0 .. days - 1}
        /\ Cardinality(DOMAIN ret) = days
        /\ \A d \in 0 .. days - 1 :
            LET entry == ret[expected_day_key(d)]
            IN  /\ DOMAIN entry =
                     {expected_slot_key(s) : s \in 0 .. slots_per_day - 1}
                         \cup summary_fields
                /\ Cardinality(DOMAIN entry) = slots_per_day + 3
                /\ \A s \in 0 .. slots_per_day - 1 :
                    LET gene == arg_chromosome[d * slots_per_day + s + 1]
                    IN  entry[expected_slot_key(s)] =
                            IF gene = 0 THEN "Rest"
                            ELSE (CHOOSE c \in {courses[i] : i \in DOMAIN courses} :
                                      c.id = gene).name

\* a schedule of 10 days and 5 slots was decoded: its last day is 'Day 9' and
\* a course sits in its 'Slot 4'
C15_Witness ==
    /\ fn = "schedule_to_readable"
    /\ days = 10
    /\ slots_per_day = 5
    /\ {"Day 7", "Day 8", "Day 9"} \subseteq DOMAIN ret
    /\ {"Slot 3", "Slot 4"} \subseteq DOMAIN ret["Day 9"]
    /\ ret["Day 9"]["Slot 4"] = "CSE 316"
    /\ ret["Day 9"]["Morning"] = "Rest"

all_rest(c) == \A k \in DOMAIN c : c[k] = 0

\* C16: with 0 < max_hours_per_day < 1.5 the capacity is 0, every chromosome
\* evolve creates, selects, crosses, mutates and returns is all rest, evolve
\* completes, and every recorded fitness is 0.
C16_BelowOneSlotAllRest ==
    RLt(Q(0), max_hours_per_day) /\ RLt(max_hours_per_day, R(3, 2)) =>
        /\ capacity = 0
        /\ \A i \in DOMAIN population : all_rest(population[i])
        /\ \A i \in DOMAIN selected : all_rest(selected[i])
        /\ all_rest(best_schedule)
        /\ \A g \in DOMAIN best_fitness_history : best_fitness_history[g] = Q(0)
        /\ pc # "raised"

\* C19: the population has exactly pop_size individuals at the start of every
\* generation and when evolve ends, for even and odd pop_size.
C19_PopulationSize ==
    pc # "idle" => Len(population) = pop_size

\* evolve returned with an odd population, after a generation whose surplus
\* child was cut off
C19_Witness ==
    /\ pc = "done"
    /\ pop_size % 2 = 1
    /\ gen >= 1
    /\ Len(population) = pop_size

\* C20: every gene of every chromosome evolve holds (created, selected,
\* crossed, mutated, repaired, returned) is 0 or the id of a course of the list.
C20_GenesAreCourseIds ==
    LET ids == {courses[i].id : i \in DOMAIN courses} \cup {0}
        known(c) == \A k \in DOMAIN c : c[k] \in ids
    IN  /\ \A i \in DOMAIN population : known(population[i])
        /\ \A i \in DOMAIN selected : known(selected[i])
        /\ known(best_schedule)

\* with two courses, evolve returned a schedule holding the second course
C20_Witness ==
    /\ pc = "done"
    /\ Len(courses) = 2
    /\ gen >= 1
    /\ \E k \in DOMAIN best_schedule : best_schedule[k] = 2

\* C17: between the start of evolve and its return nothing changes the
\* activity list the optimizer reads.
C17_CoursesReadOnlyDuringRun ==
    [][pc = "evolve" => courses' = courses]_vars

\* C18: no caller invokes evolve with an empty activity list or with
\* non-positive days, slots_per_day or max_hours_per_day.
C18_CallersGuardPreconditions ==
    [][pc # "evolve" /\ pc' = "evolve" =>
          /\ courses' # <<>>
          /\ days' >= 1
          /\ slots_per_day' >= 1
          /\ RLt(Q(0), max_hours_per_day')]_vars

(***************************************************************************)
(* The returned schedule, the history and the selection pool               *)
(***************************************************************************)
\* C21: the schedule evolve returns is a member of the final population and
\* no member of that population has a higher fitness.
C21_ReturnsBestOfFinal ==
    pc = "done" =>
        LET scores == fitness_list(population)
        IN  \E i \in DOMAIN population :
                /\ population[i] = best_schedule
                /\ \A j \in DOMAIN population : RLe(scores[j], scores[i])

\* an evolve call has returned from a final population whose members differ
\* in fitness
C21_Witness ==
    /\ pc = "done"
    /\ \E i \in DOMAIN population : population[i] = best_schedule
    /\ \E j \in DOMAIN population :
           RLt(evaluate_fitness(population[j]), evaluate_fitness(best_schedule))

\* the generations whose population has been evaluated and recorded
recorded_generations == Len(best_fitness_history)

\* C29: entry g of the history is the maximum fitness of the population at the
\* start of generation g, entry 0 being that of the initial random population;
\* the population the last generation produces gets no entry.
C29_HistoryRecordsStartOfGeneration ==
    /\ pc = "select" =>
           LET scores == fitness_list(population)
           IN  /\ \A i \in DOMAIN scores : RLe(scores[i], best_fitness_history[gen + 1])
               /\ \E i \in DOMAIN scores : scores[i] = best_fitness_history[gen + 1]
               /\ gen = 0 => \A i \in DOMAIN population :
                                 population[i] \in create_random_chromosome
    /\ pc \in {"select", "reproduce"} => recorded_generations = gen + 1
    /\ pc \in {"evaluate", "final", "done"} => recorded_generations = gen
    /\ pc \in {"final", "done"} => gen = generations

\* a returned best schedule whose fitness differs from the last history entry
C29_Witness ==
    /\ pc = "done"
    /\ recorded_generations = generations
    /\ evaluate_fitness(best_schedule) # best_fitness_history[recorded_generations]

\* the parent paired with the parent at 0-based position i of the pool
second_parent(i) == IF i + 1 < Len(selected) THEN selected[i + 2] ELSE selected[1]

\* the schedule that studies nothing
rest_schedule == [k \in 1 .. days * slots_per_day |-> 0]

\* C22: no elitism. Every pair of the selected pool has an outcome of
\* crossover and mutation in which both children study nothing, and that
\* schedule scores strictly below any positive record, so nothing carries
\* the best over and a later entry can be lower than an earlier one.
C22_BestCanBeLost ==
    pc = "reproduce" =>
        /\ \A i \in {j \in 0 .. Len(selected) - 1 : j % 2 = 0} :
               Returned(<<rest_schedule, rest_schedule>>)
                   \in reproduce_pair(selected[i + 1], second_parent(i))
        /\ RLt(Q(0), best_fitness_history[recorded_generations]) =>
               RLt(evaluate_fitness(rest_schedule),
                   best_fitness_history[recorded_generations])

\* a run whose history holds an entry strictly lower than an earlier one
C22_Witness ==
    \E g, h \in DOMAIN best_fitness_history :
        g < h /\ RLt(best_fitness_history[h], best_fitness_history[g])

\* the indices other than i whose score is at most that of index i
not_better_than(scores, i) ==
    {j \in DOMAIN scores \ {i} : RLe(scores[j], scores[i])}

\* C23: the pool selection returns has len(population) chromosomes, each the
\* copy of a member that at least two other members do not beat; a member
\* beaten by all but at most one of the others is never selected. The scores
\* are the fitness_scores the generation loop hands to selection.
C23_TournamentPool ==
    [][(pc = "select" /\ pc' = "reproduce") =>
          LET eligible == {i \in DOMAIN population :
                              Cardinality(not_better_than(fitness_scores, i)) >= 2}
          IN  /\ fitness_scores[1] = evaluate_fitness(population[1])
              /\ Len(fitness_scores) = Len(population)
              /\ Len(selected') = Len(population)
              /\ \A s \in DOMAIN selected' :
                     \E i \in eligible : population[i] = selected'[s]
              /\ \A i \in DOMAIN population \ eligible :
                     \A s \in DOMAIN selected' : selected'[s] # population[i]]_vars

\* a pool drawn from a population with a strictly worst and a strictly second
\* worst member, both absent from the pool
C23_Witness ==
    /\ pc = "reproduce"
    /\ Len(selected) = Len(population)
    /\ LET scores == fitness_list(population)
       IN  \E i, j \in DOMAIN population :
               /\ not_better_than(scores, i) = {}
               /\ not_better_than(scores, j) = {i}
               /\ \A s \in DOMAIN selected :
                      selected[s] # population[i] /\ selected[s] # population[j]

(***************************************************************************)
(* The mutation step and the fitness formula                               *)
(***************************************************************************)
\* the number of non-zero slots of the day that holds 0-based position i
load_of_day(c, i) == count_non_zero(day_slice(c, i \div slots_per_day))

\* the chromosome with position i (0-based) replaced by each possible gene
replacements(c, i) == {[c EXCEPT ![i + 1] = g] : g \in gene_choices}

\* C24 (amended): a selected gene that holds an activity is replaced by a choice
\* from the activity ids and 0 unconditionally, and this never increases the
\* day's count of non-zero slots (it keeps it or lowers it by one); a selected
\* rest gene receives a choice only if the day's count is below
\* floor(max_hours_per_day / 1.5), else it stays rest; an unselected gene is
\* left alone.
C24_MutationStep ==
    fn = "mutate" =>
        \A i \in 0 .. Len(arg_chromosome) - 1 :
            LET outs == mutate_gene(arg_chromosome, i, Q(1))
                before == load_of_day(arg_chromosome, i)
            IN  /\ mutate_gene(arg_chromosome, i, Q(0)) = {arg_chromosome}
                /\ arg_chromosome[i + 1] # 0 =>
                       /\ outs = replacements(arg_chromosome, i)
                       /\ \A m \in outs : load_of_day(m, i) \in {before, before - 1}
                       /\ \E m \in outs : load_of_day(m, i) = before - 1
                /\ arg_chromosome[i + 1] = 0 =>
                       outs = IF before < RFloor(RDiv(max_hours_per_day, R(3, 2)))
                              THEN replacements(arg_chromosome, i)
                              ELSE {arg_chromosome}

\* a chromosome was mutated that has, in one day filled to its capacity, both
\* an activity gene and a rest gene
C24_Witness ==
    /\ fn = "mutate"
    /\ arg_rate = Q(1)
    /\ ret # arg_chromosome
    /\ \E i, j \in 0 .. Len(arg_chromosome) - 1 :
           /\ i \div slots_per_day = j \div slots_per_day
           /\ arg_chromosome[i + 1] # 0
           /\ arg_chromosome[j + 1] = 0
           /\ load_of_day(arg_chromosome, i) = capacity
           /\ mutate_gene(arg_chromosome, j, Q(1)) = {arg_chromosome}

\* C24 as stated: replacing a selected activity gene can increase the day's
\* count of non-zero slots.
C24_ReplacementCanIncreaseLoad ==
    (/\ fn = "mutate"
     /\ \E i \in DOMAIN arg_chromosome : arg_chromosome[i] # 0) =>
        \E i \in 0 .. Len(arg_chromosome) - 1 :
            /\ arg_chromosome[i + 1] # 0
            /\ \E m \in mutate_gene(arg_chromosome, i, Q(1)) :
                   load_of_day(m, i) > load_of_day(arg_chromosome, i)

\* the sum of a sequence of rationals
RECURSIVE RSum(_)
RSum(terms) ==
    IF terms = <<>> THEN Q(0) ELSE RAdd(Head(terms), RSum(Tail(terms)))

\* the 1-based positions of the slots of a day (0-based day)
positions_of_day(day) == day * slots_per_day + 1 .. (day + 1) * slots_per_day

\* the 1-based positions of a day that hold an activity
occupied(c, day) == {k \in positions_of_day(day) : c[k] # 0}

\* hours of a day: 1.5 for every occupied slot
hours_of_day(c, day) == RMul(Q(Cardinality(occupied(c, day))), R(3, 2))

\* mean difficulty of the occupied slots of a day, 0 if there is none
mean_difficulty(c, day) ==
    IF occupied(c, day) = {} THEN Q(0)
    ELSE RDiv(RSum([k \in 1 .. slots_per_day |->
                       LET g == c[day * slots_per_day + k]
                       IN  IF g = 0 THEN Q(0)
                           ELSE Q((CHOOSE a \in {courses[n] : n \in DOMAIN courses} :
                                       a.id = g).difficulty)]),
              Q(Cardinality(occupied(c, day))))

\* sum over the days of max(0, day_hours - max_hours_per_day) squared
overload_sum(c) ==
    RSum([d \in 1 .. days |->
             LET over == RMax(Q(0), RSub(hours_of_day(c, d - 1), max_hours_per_day))
             IN  RMul(over, over)])

\* sum over the days of calculate_stress(day_hours, mean difficulty)
stress_sum(c) ==
    RSum([d \in 1 .. days |->
             calculate_stress(hours_of_day(c, d - 1), mean_difficulty(c, d - 1))])

\* the number of distinct activities that have at least one slot
distinct_activities(c) ==
    Cardinality({a \in {courses[n].id : n \in DOMAIN courses} :
                    \E k \in DOMAIN c : c[k] = a})

\* C27: evaluate_fitness is max(0, 5 x coverage - 2 x overload - 3 x stress_sum)
\* with coverage the number of distinct activities scheduled; for a valid
\* schedule the overload is 0 and the fitness is at most 5 x number of
\* activities.
C27_FitnessFormula ==
    fn = "evaluate_fitness" =>
        /\ ret = RMax(Q(0),
                      RSub(RSub(RMul(Q(5), Q(distinct_activities(arg_chromosome))),
                                RMul(Q(2), overload_sum(arg_chromosome))),
                           RMul(Q(3), stress_sum(arg_chromosome))))
        /\ within_daily_limit(arg_chromosome) =>
               /\ overload_sum(arg_chromosome) = Q(0)
               /\ RLe(ret, Q(5 * Len(courses)))

\* a schedule with one activity in several slots and an overloaded day scored
\* above 0
C27_Witness ==
    /\ fn = "evaluate_fitness"
    /\ RLt(Q(0), ret)
    /\ RLt(Q(0), overload_sum(arg_chromosome))
    /\ \E i, j \in DOMAIN arg_chromosome :
           i # j /\ arg_chromosome[i] # 0 /\ arg_chromosome[i] = arg_chromosome[j]

(***************************************************************************)
(* The progress callback                                                   *)
(***************************************************************************)
\* with a callback: one call per finished generation, the k-th with the
\* arguments (k, generations, k-th history entry); without: no call
calls_match_generations ==
    IF progress_callback
    THEN /\ Len(progress_calls) = gen
         /\ \A k \in DOMAIN progress_calls :
                progress_calls[k] = <<k, generations, best_fitness_history[k]>>
    ELSE progress_calls = <<>>

\* a call is made in the step that builds the next population, after the
\* generation's history entry and before the next generation is evaluated
call_ends_generation ==
    progress_calls' # progress_calls =>
        /\ progress_callback
        /\ pc = "reproduce" /\ pc' \in {"evaluate", "final"}
        /\ gen' = gen + 1
        /\ Len(progress_calls') = gen'
        /\ Len(best_fitness_history) = gen'
        /\ best_fitness_history' = best_fitness_history
        /\ Len(population') = pop_size

\* C25: a supplied progress callback is called exactly once per generation, in
\* increasing order, the k-th call with (k, N, k-th history entry), after that
\* entry is recorded and the next population is built and before the next
\* generation is evaluated; without a callback no call is made and evolve
\* returns all the same.
C25_CallbackProtocol ==
    /\ [](calls_match_generations)
    /\ [][call_ends_generation]_vars
    /\ [](pc = "done" => Len(progress_calls) = IF progress_callback THEN generations ELSE 0)

\* evolve returned after two generations, each reported to the callback
C25_Witness ==
    /\ pc = "done"
    /\ progress_callback
    /\ generations = 2
    /\ progress_calls = <<<<1, 2, best_fitness_history[1]>>,
                          <<2, 2, best_fitness_history[2]>>>>

(***************************************************************************)
(* Inputs and results of the operators as list objects                     *)
(***************************************************************************)
\* the references of the lists handed to the operators
input_refs == DOMAIN population

\* C26: selection, crossover (cut or not), mutate and fix_chromosome leave the
\* lists passed to them as they were and return lists that are new objects,
\* distinct from the inputs and from each other; a later in-place change of a
\* returned list changes no input.
C26_FreshResults ==
    fn # "none" =>
        /\ \A r \in input_refs : heap[r] = population[r]
        /\ \A k \in DOMAIN ret : ret[k] \notin input_refs
        /\ \A k, l \in DOMAIN ret : k # l => ret[k] # ret[l]

\* a child returned by crossover without a cut was changed in place and now
\* differs from the parent it was copied from
C26_Witness ==
    /\ fn = "written"
    /\ arg_rate = Q(0)
    /\ Len(ret) = 2
    /\ heap[ret[1]] # population[1]
    /\ heap[1] = population[1]

(***************************************************************************)
(* The worker thread of the GUI and the results it leaves                  *)
(***************************************************************************)
\* C28: in the GUI at most one thread is inside _run_ga at any time: a worker
\* is started only while is_generating is False, which is set to True with the
\* start; while is_generating is True nothing is started; the end of the
\* worker resets is_generating, whether evolve returned or raised, and under
\* fair scheduling of the worker that end comes.
C28_SingleWorker ==
    /\ [](workers <= 1 /\ (workers = 1 => is_generating))
    /\ [][workers' > workers => ~is_generating /\ is_generating']_vars
    /\ [][workers' < workers => ~is_generating']_vars
    /\ (is_generating ~> ~is_generating)

\* a second run raised after a first one had returned, and the flag is reset
C28_Witness ==
    /\ request.caller = "gui"
    /\ pc = "finished"
    /\ gen < generations
    /\ best_schedule # <<>>
    /\ ~is_generating
    /\ workers = 0

\* C30: in the GUI a stored best schedule always fits the optimizer stored in
\* self.ga and the current course list: its length is ga.days x
\* ga.slots_per_day and its non-zero genes are ids of self.courses.
C30_ResultMatchesOptimizer ==
    (request.caller = "gui" /\ best_schedule # <<>>) =>
        /\ Len(best_schedule) = days * slots_per_day
        /\ \A k \in DOMAIN best_schedule :
               best_schedule[k] # 0 =>
                   \E n \in DOMAIN gui_courses : gui_courses[n].id = best_schedule[k]

====
